---- MODULE Spec2Model ----
(***************************************************************************)
(* Model of src/main.py: the phase-invariant unitary comparator            *)
(* (global_phase_equivalent), the basis-state evaluator (truth_table) and  *)
(* the driver (main) that compares the candidate circuit with CCX.         *)
(*                                                                         *)
(* Numbers.  The comparator works on complex numbers with integer real    *)
(* and imaginary parts; tolerances are counted in units of 1/TolDen.  The  *)
(* circuits work on amplitudes of the ring Z[w, 1/sqrt 2], w = e^(i pi/4), *)
(* which holds every amplitude a circuit of H, T, T-dagger, X, CX and CCX  *)
(* gates can produce.  All arithmetic is exact on the values drawn.        *)
(***************************************************************************)
EXTENDS Integers, Sequences, FiniteSets, TLC

VARIABLES
    \* global_phase_equivalent
    U,          \* first matrix  (main: Operator(taskcircuit).data)
    V,          \* second matrix (main: Operator(ref).data)
    atol,       \* tolerance, in units of 1/TolDen
    alpha,      \* line 18: <<the inner product>>, <<>> before line 18 ran
    phase,      \* line 22: <<the estimated phase>>, <<>> when line 22 did not run
    eq,         \* the boolean global_phase_equivalent(U, V, atol) returned
    eqSwapped,  \* the boolean global_phase_equivalent(V, U, atol) returned
    called,     \* the calls that returned
    \* main
    pc,         \* the statement main is at
    qc,         \* build_circuit_with_u3: the circuit under construction
    taskcircuit, \* main: the candidate circuit (first argument of a comparison)
    ref,        \* main: the reference circuit (second argument of a comparison)
    tt_task1,   \* truth_table(taskcircuit)
    tt_ref,     \* truth_table(ref)
    tt_match,   \* tt_task1 == tt_ref
    out,        \* standard output: the lines printed so far
    \* truth_table and pretty_print_truth_table, called by main
    ret,        \* the variable the running call's result is for
    circ,       \* truth_table: its argument
    results,    \* truth_table: the dict under construction
    iter,       \* the number of loop iterations completed
    label,      \* truth_table: line 34
    psi_in,     \* truth_table: line 35
    psi_out,    \* truth_table: line 36
    max_idx     \* truth_table: line 41

gpeVars == <<U, V, atol, alpha, phase, eq, eqSwapped>>

circuitVars == <<taskcircuit, ref>>

tableVars == <<tt_task1, tt_ref, tt_match>>

loopVars == <<circ, results, iter, label, psi_in, psi_out, max_idx>>

vars ==
    <<U, V, atol, alpha, phase, eq, eqSwapped, called, pc, qc, taskcircuit,
      ref, tt_task1, tt_ref, tt_match, out, ret, circ, results, iter, label,
      psi_in, psi_out, max_idx>>

(***************************************************************************)
(* Bounds of the model.                                                    *)
(***************************************************************************)
\* Entries of the first matrix the comparator is called on: -MaxEntry..MaxEntry.
MaxEntry == 1

(***************************************************************************)
(* Complex numbers with integer parts (numpy complex128 on exact values).  *)
(***************************************************************************)
C(x, y) == [re |-> x, im |-> y]

\* The value numpy gives for a division by zero: nan+nanj.
NaN == [nan |-> TRUE]

IsNaN(z) == "nan" \in DOMAIN z

Zero == C(0, 0)

One == C(1, 0)

Conj(z) == IF IsNaN(z) THEN NaN ELSE C(z.re, -z.im)

CAdd(a, b) == IF IsNaN(a) \/ IsNaN(b) THEN NaN ELSE C(a.re + b.re, a.im + b.im)

CSub(a, b) == IF IsNaN(a) \/ IsNaN(b) THEN NaN ELSE C(a.re - b.re, a.im - b.im)

CMul(a, b) ==
    IF IsNaN(a) \/ IsNaN(b) THEN NaN
    ELSE C(a.re * b.re - a.im * b.im, a.re * b.im + a.im * b.re)

\* Integer square root; exact on the perfect squares the model's values give.
ISqrt(n) == CHOOSE r \in 0..n : r * r <= n /\ (r + 1) * (r + 1) > n

\* abs(z) of a complex number.
Abs(z) == ISqrt(z.re * z.re + z.im * z.im)

\* z / r for a real r; numpy returns nan+nanj (and warns) when r is 0.
CDivReal(z, r) == IF r = 0 \/ IsNaN(z) THEN NaN ELSE C(z.re \div r, z.im \div r)

(***************************************************************************)
(* Matrices: sequences of rows.                                            *)
(***************************************************************************)
Rows(M) == Len(M)

Cols(M) == Len(M[1])

\* ndarray.flatten(): row-major order.
Flatten(M) ==
    [k \in 1..(Rows(M) * Cols(M)) |->
        M[((k - 1) \div Cols(M)) + 1][((k - 1) % Cols(M)) + 1]]

\* phase * V: every entry multiplied by the scalar.
Scale(c, M) == [i \in 1..Rows(M) |-> [j \in 1..Cols(M) |-> CMul(c, M[i][j])]]

\* The sum of conj(x[k]) * y[k] for k in lo..hi, by halves.
RECURSIVE VdotRange(_, _, _, _)
VdotRange(x, y, lo, hi) ==
    IF lo > hi THEN Zero
    ELSE IF lo = hi THEN CMul(Conj(x[lo]), y[lo])
    ELSE LET mid == (lo + hi) \div 2
         IN  CAdd(VdotRange(x, y, lo, mid), VdotRange(x, y, mid + 1, hi))

\* np.vdot(x, y): sum of conj(x[k]) * y[k], the FIRST argument conjugated.
Vdot(x, y) == VdotRange(x, y, 1, Len(x))

(***************************************************************************)
(* numpy's tolerance test.  np.isclose(a, b, atol=atol) and np.allclose    *)
(* leave rtol at numpy's default 1e-5 = RtolNum / TolDen and accept        *)
(*     |a - b| <= atol + rtol * |b|.                                       *)
(***************************************************************************)
TolDen == 1000000

RtolNum == 10

\* atol = 1e-10 of line 13, rounded down to the unit 1/TolDen.  Every
\* magnitude compared is an integer, so TolDen * d <= 1e-4 + RtolNum * m and
\* TolDen * d <= 0 + RtolNum * m decide alike.
DefaultAtol == 0

\* Faulty variant: the atol argument is not passed on.
IsCloseNoAtol(a, b, tol) ==
    IF IsNaN(a) \/ IsNaN(b) THEN FALSE
    ELSE TolDen * Abs(CSub(a, b)) <= RtolNum * Abs(b)

IsClose(a, b, tol) ==
    IF IsNaN(a) \/ IsNaN(b) THEN FALSE
    ELSE TolDen * Abs(CSub(a, b)) <= tol + RtolNum * Abs(b)

AllClose(A, B, tol) ==
    \A i \in 1..Rows(A) : \A j \in 1..Cols(A) : IsClose(A[i][j], B[i][j], tol)

(***************************************************************************)
(* global_phase_equivalent(U, V, atol), lines 13-23.  The record keeps     *)
(* what each line computed: phase is <<>> when line 22 never ran.          *)
(***************************************************************************)
GlobalPhaseEquivalent(A, B, tol) ==
    LET a == Vdot(Flatten(A), Flatten(B))
    IN  IF IsClose(a, Zero, tol)
        THEN [alpha |-> <<a>>, phase |-> <<>>, result |-> FALSE]
        ELSE LET p == CDivReal(a, Abs(a))
             IN  [alpha |-> <<a>>, phase |-> <<p>>,
                  result |-> AllClose(A, Scale(p, B), tol)]

(***************************************************************************)
(* Amplitudes.  An amplitude is a0 + a1 w + a2 w^2 + a3 w^3 over a power   *)
(* of sqrt 2, with w = e^(i pi/4) and w^4 = -1; a statevector keeps one    *)
(* power k of sqrt 2 for all of its 2^3 amplitudes:                        *)
(*     [data |-> <<q_0, ..., q_7>>, k |-> k]   stands for   data / sqrt2^k *)
(* Index i of data is the basis state whose bit q (i \div 2^q) % 2 is the  *)
(* value of qubit q: qubit 2 is the most significant bit (Qiskit's order). *)
(***************************************************************************)
Q(a0, a1, a2, a3) == <<a0, a1, a2, a3>>

QZero == Q(0, 0, 0, 0)

QOne == Q(1, 0, 0, 0)

QAdd(x, y) == Q(x[1] + y[1], x[2] + y[2], x[3] + y[3], x[4] + y[4])

QNeg(x) == Q(-x[1], -x[2], -x[3], -x[4])

\* x * w
QTimesOmega(x) == Q(-x[4], x[1], x[2], x[3])

\* x * w^j, j >= 0
RECURSIVE QRot(_, _)
QRot(x, j) == IF j = 0 THEN x ELSE QRot(QTimesOmega(x), j - 1)

\* x * sqrt 2, with sqrt 2 = w - w^3
QTimesSqrt2(x) == QAdd(QTimesOmega(x), QNeg(QRot(x, 3)))

QEven(x) == \A n \in 1..4 : x[n] % 2 = 0

QHalf(x) == Q(x[1] \div 2, x[2] \div 2, x[3] \div 2, x[4] \div 2)

\* The number of a gate-matrix entry: 0 or a power of w.
Entry(nonzero, j) == [nz |-> nonzero, e |-> j % 8]

QTimesEntry(x, m) == IF m.nz THEN QRot(x, m.e) ELSE QZero

\* 2^n
RECURSIVE Pow2(_)
Pow2(n) == IF n = 0 THEN 1 ELSE 2 * Pow2(n - 1)

\* Bit q of basis index i.
Bit(i, q) == (i \div Pow2(q)) % 2

\* Index i with bit q exchanged.
Flip(i, q) == IF Bit(i, q) = 0 THEN i + Pow2(q) ELSE i - Pow2(q)

\* The eight amplitudes f(0), ..., f(7) as a statevector's data.
Vec8(f(_)) == <<f(0), f(1), f(2), f(3), f(4), f(5), f(6), f(7)>>

\* Amplitude of basis index i.
Amp(psi, i) == psi.data[i + 1]

(***************************************************************************)
(* Gates.  Angles are counted in units of pi/4.                            *)
(***************************************************************************)
\* QuantumCircuit.u(theta, phi, lam, q), theta in {0, pi/2, pi}:
\*   [[cos(theta/2), -e^(i lam) sin(theta/2)],
\*    [e^(i phi) sin(theta/2), e^(i (phi + lam)) cos(theta/2)]]
\* k is the power of sqrt 2 the four entries are divided by.
UMatrix(theta, phi, lam) ==
    [m |-> << <<Entry(theta # 4, 0), Entry(theta # 0, lam + 4)>>,
              <<Entry(theta # 0, phi), Entry(theta # 4, phi + lam)>> >>,
     k |-> IF theta = 2 THEN 1 ELSE 0]

GateU(theta, phi, lam, q) == [name |-> "u", mat |-> UMatrix(theta, phi, lam), q |-> q]

\* h = U(pi/2, 0, pi), t = diag(1, w), tdg = diag(1, w^-1), x = U(pi, 0, pi)
GateH(q) == [name |-> "h", mat |-> UMatrix(2, 0, 4), q |-> q]

GateT(q) == [name |-> "t", mat |-> UMatrix(0, 0, 1), q |-> q]

GateTdg(q) == [name |-> "tdg", mat |-> UMatrix(0, 0, 7), q |-> q]

GateX(q) == [name |-> "x", mat |-> UMatrix(4, 0, 4), q |-> q]

GateCX(c, t) == [name |-> "cx", c |-> c, t |-> t]

GateCCX(c1, c2, t) == [name |-> "ccx", c1 |-> c1, c2 |-> c2, t |-> t]

\* A one-qubit gate on qubit g.q.
Apply1(psi, g) ==
    LET New(i) ==
            LET lo == IF Bit(i, g.q) = 0 THEN i ELSE Flip(i, g.q)
                hi == Flip(lo, g.q)
                row == g.mat.m[Bit(i, g.q) + 1]
            IN  QAdd(QTimesEntry(Amp(psi, lo), row[1]),
                     QTimesEntry(Amp(psi, hi), row[2]))
    IN  [k |-> psi.k + g.mat.k, data |-> Vec8(New)]

ApplyCX(psi, g) ==
    LET New(i) == Amp(psi, IF Bit(i, g.c) = 1 THEN Flip(i, g.t) ELSE i)
    IN  [k |-> psi.k, data |-> Vec8(New)]

ApplyCCX(psi, g) ==
    LET New(i) ==
            Amp(psi, IF Bit(i, g.c1) = 1 /\ Bit(i, g.c2) = 1
                     THEN Flip(i, g.t) ELSE i)
    IN  [k |-> psi.k, data |-> Vec8(New)]

ApplyGate(psi, g) ==
    CASE g.name = "cx" -> ApplyCX(psi, g)
      [] g.name = "ccx" -> ApplyCCX(psi, g)
      [] OTHER -> Apply1(psi, g)

\* A circuit: its gates in order and its global phase (units of pi/4).
Circuit(gates, gphase) == [gates |-> gates, global_phase |-> gphase]

RECURSIVE ApplyGates(_, _, _)
ApplyGates(psi, gates, n) ==
    IF n = 0 THEN psi ELSE ApplyGate(ApplyGates(psi, gates, n - 1), gates[n])

\* Statevector.evolve(circ): the gates in order, then the global phase.
Evolve(psi, c) ==
    LET run == ApplyGates(psi, c.gates, Len(c.gates))
        Turned(i) == QRot(Amp(run, i), c.global_phase)
    IN  [k |-> run.k, data |-> Vec8(Turned)]

(***************************************************************************)
(* truth_table, lines 25-47.  A label is the sequence of its characters.   *)
(***************************************************************************)
Chars == {"0", "1"}

Digit(ch) == IF ch = "1" THEN 1 ELSE 0

Char(bit) == IF bit = 1 THEN "1" ELSE "0"

\* Statevector.from_label(label): the basis state of index int(label, 2);
\* the LEFTMOST character is the highest qubit, the rightmost is qubit 0.
FromLabel(lbl) ==
    LET at == 4 * Digit(lbl[1]) + 2 * Digit(lbl[2]) + Digit(lbl[3])
        Basis(i) == IF i = at THEN QOne ELSE QZero
    IN  [k |-> 0, data |-> Vec8(Basis)]

\* |z|^2 of z = a0 + a1 w + a2 w^2 + a3 w^3 is p + q sqrt 2 with
\*   p = a0^2 + a1^2 + a2^2 + a3^2,  q = a0 a1 + a1 a2 + a2 a3 - a3 a0.
\* np.abs(psi_out.data)**2, times 2^k (the same k for all eight).
NormSq(x) ==
    [p |-> x[1] * x[1] + x[2] * x[2] + x[3] * x[3] + x[4] * x[4],
     q |-> x[1] * x[2] + x[2] * x[3] + x[3] * x[4] - x[4] * x[1]]

\* Faulty variant: the real part of each amplitude (times 2) in place of |z|^2:
\* Re z = a0 + (a1 - a3) / sqrt 2.
ProbsRealPart(psi) ==
    [i \in 0..7 |-> [p |-> 2 * Amp(psi, i)[1], q |-> Amp(psi, i)[2] - Amp(psi, i)[4]]]

Probs(psi) == [i \in 0..7 |-> NormSq(Amp(psi, i))]

\* p + q sqrt 2 > 0
Sqrt2Positive(p, q) ==
    \/ p >= 0 /\ q >= 0 /\ (p > 0 \/ q > 0)
    \/ p > 0 /\ q < 0 /\ p * p > 2 * q * q
    \/ p < 0 /\ q > 0 /\ 2 * q * q > p * p

ProbLess(x, y) == Sqrt2Positive(y.p - x.p, y.q - x.q)

\* np.argmax(probs): the FIRST index holding the maximum.
ArgMax(probs) ==
    CHOOSE i \in 0..7 :
        /\ \A j \in 0..7 : ~ProbLess(probs[i], probs[j])
        /\ \A j \in 0..(i - 1) : ProbLess(probs[j], probs[i])

\* format(max_idx, "03b"): three binary digits, most significant first.
Format03b(n) == <<Char(Bit(n, 2)), Char(Bit(n, 1)), Char(Bit(n, 0))>>

\* s[::-1]
Reversed(s) == [n \in 1..Len(s) |-> s[Len(s) + 1 - n]]

\* Lines 41-45: the output label of a winning index.
OutputLabel(idx) == Reversed(Format03b(idx))

\* The labels in the order of the three nested loops of lines 31-33.
LabelAt(n) == Format03b(n)

Labels == {LabelAt(n) : n \in 0..7}

\* truth_table(c): the whole mapping.
TruthTable(c) ==
    [lbl \in Labels |->
        OutputLabel(ArgMax(Probs(Evolve(FromLabel(lbl), c))))]

(***************************************************************************)
(* The circuits of lines 59-92.                                            *)
(***************************************************************************)
\* build_circuit_with_u3, lines 64-81: the gates in the order appended.
TaskGates ==
    << GateU(2, 0, 4, 2),
       GateT(0), GateCX(0, 1), GateTdg(1), GateCX(0, 1), GateT(1),
       GateCX(1, 2), GateTdg(2), GateCX(0, 2), GateT(2), GateCX(1, 2),
       GateU(0, 0, 7, 2),
       GateCX(0, 2), GateT(2), GateH(2) >>

BuildCircuitWithU3 == Circuit(TaskGates, 0)

\* Faulty variant: target and second control exchanged.
RefGatesWrongTarget == << GateCCX(0, 2, 1) >>

\* build_reference_toffoli, lines 90-91.
RefGates == << GateCCX(0, 1, 2) >>

BuildReferenceToffoli == Circuit(RefGates, 0)

(***************************************************************************)
(* Operator(circ).data: the 8x8 unitary, column j the image of basis j.    *)
(***************************************************************************)
BasisState(j) ==
    LET Basis(i) == IF i = j THEN QOne ELSE QZero
    IN  [k |-> 0, data |-> Vec8(Basis)]

\* x / sqrt2^k as a complex number with integer parts; NaN stands for a
\* value that has none (it is outside the comparator's number model).
RECURSIVE ToComplex(_, _)
ToComplex(x, k) ==
    IF k > 0
    THEN IF QEven(QTimesSqrt2(x)) THEN ToComplex(QHalf(QTimesSqrt2(x)), k - 1)
         ELSE NaN
    ELSE IF x[2] = 0 /\ x[4] = 0 THEN C(x[1], x[3]) ELSE NaN

OperatorData(c) ==
    LET Col(j) == Evolve(BasisState(j), c)
        cols == Vec8(Col)
    IN  [i \in 1..8 |-> [j \in 1..8 |->
            ToComplex(Amp(cols[j], i - 1), cols[j].k)]]

(***************************************************************************)
(* The comparator called on bounded inputs.                                *)
(***************************************************************************)
Entries == -MaxEntry..MaxEntry

Units == {C(1, 0), C(0, 1), C(-1, 0), C(0, -1)}

\* 2x2 real matrices.
RealMats ==
    {<<<<C(a, 0), C(b, 0)>>, <<C(c, 0), C(d, 0)>>>> : a, b, c, d \in Entries}

\* M itself, M with one entry moved by one, M with its rows exchanged, and 0.
Neighbours(M) ==
    {M, <<M[2], M[1]>>, Scale(Zero, M)}
    \cup {[M EXCEPT ![i][j] = CAdd(@, C(d, 0))] :
            i \in 1..2, j \in 1..2, d \in {-1, 1}}

\* Second arguments: a unit multiple of a neighbour of the first.
VInputs(M) == {Scale(c, W) : c \in Units, W \in Neighbours(M)}

\* Tolerances: 0, just under 1, and 1.
Atols == {0, TolDen - (RtolNum \div 2), TolDen}

\* The variables of main, at rest while a function is called on its own.
mainVars ==
    <<pc, qc, taskcircuit, ref, tt_task1, tt_ref, tt_match, out, ret, circ,
      results, iter, label, psi_in, psi_out, max_idx>>

NoCircuit == Circuit(<<>>, 0)

NoState == BasisState(0)

LoopIdle ==
    /\ ret = "none"
    /\ circ = NoCircuit
    /\ results = <<>>
    /\ iter = 0
    /\ label = <<>>
    /\ psi_in = NoState
    /\ psi_out = NoState
    /\ max_idx = 0

MainIdle ==
    /\ pc = "idle"
    /\ qc = NoCircuit
    /\ taskcircuit = NoCircuit
    /\ ref = NoCircuit
    /\ tt_task1 = <<>>
    /\ tt_ref = <<>>
    /\ tt_match = FALSE
    /\ out = <<>>
    /\ LoopIdle

InitGPE ==
    /\ U \in RealMats
    /\ V \in VInputs(U)
    /\ atol \in Atols
    /\ alpha = <<>>
    /\ phase = <<>>
    /\ eq = FALSE
    /\ eqSwapped = FALSE
    /\ called = {}
    /\ MainIdle

\* eq = global_phase_equivalent(U, V, atol)
CallUV ==
    /\ "UV" \notin called
    /\ LET r == GlobalPhaseEquivalent(U, V, atol)
       IN  /\ alpha' = r.alpha
           /\ phase' = r.phase
           /\ eq' = r.result
    /\ called' = called \cup {"UV"}
    /\ UNCHANGED <<U, V, atol, eqSwapped, mainVars>>

\* eqSwapped = global_phase_equivalent(V, U, atol)
CallVU ==
    /\ "VU" \notin called
    /\ eqSwapped' = GlobalPhaseEquivalent(V, U, atol).result
    /\ called' = called \cup {"VU"}
    /\ UNCHANGED <<U, V, atol, alpha, phase, eq, mainVars>>

NextGPE == CallUV \/ CallVU

SpecGPE == InitGPE /\ [][NextGPE]_vars

(***************************************************************************)
(* Properties of global_phase_equivalent.                                  *)
(***************************************************************************)
\* U * U^dagger = 1 for a 2x2 matrix.
IsUnitary(M) ==
    \A i \in 1..2 : \A j \in 1..2 :
        CAdd(CMul(M[i][1], Conj(M[j][1])), CMul(M[i][2], Conj(M[j][2])))
            = IF i = j THEN One ELSE Zero

\* Every entry of A within the absolute tolerance tol of the entry of B.
WithinAtol(A, B, tol) ==
    \A i \in 1..Rows(A) : \A j \in 1..Cols(A) :
        TolDen * Abs(CSub(A[i][j], B[i][j])) <= tol

\* Every square root and division the two calls take is exact.
ArithmeticExact ==
    LET a == Vdot(Flatten(U), Flatten(V))
        n == Abs(a)
    IN  /\ n * n = a.re * a.re + a.im * a.im
        /\ n # 0 => a.re % n = 0 /\ a.im % n = 0
        /\ n # 0 =>
             \A i \in 1..2 : \A j \in 1..2 :
                LET d == CSub(U[i][j], CMul(CDivReal(a, n), V[i][j]))
                    e == CSub(V[i][j], CMul(CDivReal(Conj(a), n), U[i][j]))
                IN  /\ Abs(d) * Abs(d) = d.re * d.re + d.im * d.im
                    /\ Abs(e) * Abs(e) = e.re * e.re + e.im * e.im
                    /\ Abs(U[i][j]) * Abs(U[i][j]) = U[i][j].re * U[i][j].re
                    /\ Abs(V[i][j]) * Abs(V[i][j])
                         = V[i][j].re * V[i][j].re + V[i][j].im * V[i][j].im

\* C1: global_phase_equivalent(U, V, atol) returns true if and only if some
\* complex phi with |phi| = 1 brings every entry of U within atol of phi
\* times the entry of V.
C1_TrueIffPhaseExists ==
    "UV" \in called =>
        (eq <=> \E phi \in Units : WithinAtol(U, Scale(phi, V), atol))

\* C2: for a unitary U and any phase phi with |phi| = 1 (i and -i included),
\* global_phase_equivalent(U, phi * U) returns true.
C2_PhaseRotationAccepted ==
    ("UV" \in called /\ IsUnitary(U) /\ \E phi \in Units : V = Scale(phi, U))
        => eq = TRUE

\* C3: global_phase_equivalent(U, V) and global_phase_equivalent(V, U)
\* return the same boolean for the same tolerance.
C3_Symmetric ==
    called = {"UV", "VU"} => eq = eqSwapped

\* C8: when the inner product alpha = vdot(U, V) is zero within atol, the
\* call returns false and never divides by |alpha| (line 22 does not run).
C8_OrthogonalRejected ==
    ("UV" \in called /\ TolDen * Abs(Vdot(Flatten(U), Flatten(V))) <= atol)
        => eq = FALSE /\ phase = <<>>

\* C8 witness: a returned call on two nonzero matrices whose inner product
\* is within atol of zero.
C8_Witness ==
    /\ "UV" \in called
    /\ TolDen * Abs(Vdot(Flatten(U), Flatten(V))) <= atol
    /\ U # Scale(Zero, U)
    /\ V # Scale(Zero, V)
    /\ eq = FALSE

\* C9: the final comparison accepts exactly when every entry satisfies
\* |U[i][j] - phase * V[i][j]| <= atol; no relative term widens it.
C9_AbsoluteToleranceOnly ==
    ("UV" \in called /\ phase # <<>>)
        => (eq <=> WithinAtol(U, Scale(phase[1], V), atol))

(***************************************************************************)
(* pretty_print_truth_table, lines 50-53, and the lines main prints.  A    *)
(* printed line is [src |-> the source line of the print, text |-> the     *)
(* pieces of the text].                                                    *)
(***************************************************************************)
Line(src, text) == [src |-> src, text |-> text]

\* str of a label: its characters joined.
Str(lbl) == lbl[1] \o lbl[2] \o lbl[3]

\* str(bool)
BoolStr(b) == IF b THEN "True" ELSE "False"

\* x < y for two strings of binary digits of one length.
StrLess(x, y) ==
    \E i \in 1..Len(x) :
        /\ \A j \in 1..(i - 1) : x[j] = y[j]
        /\ Digit(x[i]) < Digit(y[i])

\* sorted(keys)
RECURSIVE Sorted(_)
Sorted(keys) ==
    IF keys = {} THEN <<>>
    ELSE LET least == CHOOSE x \in keys : \A y \in keys : x = y \/ StrLess(x, y)
         IN  <<least>> \o Sorted(keys \ {least})

HeaderLine == Line(51, <<"Input(q0q1q2) -> Output(q0q1q2)">>)

RowLine(k, v) == Line(53, <<"    ", Str(k), " -> ", Str(v)>>)

PassLine ==
    Line(126, <<"PASS: With U3_1 = U3(pi/2, 0, pi) and U3_2 = U3(0, 0, -pi/4), the circuit equals CCX.">>)

FailLine ==
    Line(128, <<"FAIL: Circuits did not match; double-check gate order and parameters.">>)

\* Faulty variant: the two branches of line 125 exchanged.
SummaryLineNegated(e, m) == IF e /\ m THEN FailLine ELSE PassLine

\* Lines 125-128.
SummaryLine(e, m) == IF e /\ m THEN PassLine ELSE FailLine

(***************************************************************************)
(* main, lines 98-128, statement by statement.                             *)
(***************************************************************************)
InitMain ==
    /\ U = <<>>
    /\ V = <<>>
    /\ atol = DefaultAtol
    /\ alpha = <<>>
    /\ phase = <<>>
    /\ eq = FALSE
    /\ eqSwapped = FALSE
    /\ called = {}
    /\ pc = "build_circuit_with_u3"
    /\ qc = NoCircuit
    /\ taskcircuit = NoCircuit
    /\ ref = NoCircuit
    /\ tt_task1 = <<>>
    /\ tt_ref = <<>>
    /\ tt_match = FALSE
    /\ out = <<>>
    /\ LoopIdle

\* Line 60: qc = QuantumCircuit(3)
NewTaskCircuit ==
    /\ pc = "build_circuit_with_u3"
    /\ qc' = Circuit(<<>>, 0)
    /\ pc' = "append"
    /\ UNCHANGED <<gpeVars, called, circuitVars, tableVars, out, ret, loopVars>>

\* Lines 64-81: the next gate is appended.
AppendTaskGate ==
    /\ pc = "append"
    /\ Len(qc.gates) < Len(TaskGates)
    /\ qc' = [qc EXCEPT !.gates = Append(@, TaskGates[Len(@) + 1])]
    /\ pc' = IF Len(qc.gates) + 1 = Len(TaskGates) THEN "return qc" ELSE "append"
    /\ UNCHANGED <<gpeVars, called, circuitVars, tableVars, out, ret, loopVars>>

\* Lines 83 and 99: taskcircuit = build_circuit_with_u3()
ReturnTaskCircuit ==
    /\ pc = "return qc"
    /\ taskcircuit' = qc
    /\ pc' = "build_reference_toffoli"
    /\ UNCHANGED <<gpeVars, called, qc, ref, tableVars, out, ret, loopVars>>

\* Lines 90-92 and 100: ref = build_reference_toffoli()
BuildReference ==
    /\ pc = "build_reference_toffoli"
    /\ ref' = BuildReferenceToffoli
    /\ pc' = "U"
    /\ UNCHANGED <<gpeVars, called, qc, taskcircuit, tableVars, out, ret, loopVars>>

\* Line 103: U = Operator(taskcircuit).data
OperatorU ==
    /\ pc = "U"
    /\ U' = OperatorData(taskcircuit)
    /\ pc' = "V"
    /\ UNCHANGED <<V, atol, alpha, phase, eq, eqSwapped, called, qc,
                   circuitVars, tableVars, out, ret, loopVars>>

\* Line 104: V = Operator(ref).data
OperatorV ==
    /\ pc = "V"
    /\ V' = OperatorData(ref)
    /\ pc' = "eq"
    /\ UNCHANGED <<U, atol, alpha, phase, eq, eqSwapped, called, qc,
                   circuitVars, tableVars, out, ret, loopVars>>

\* Line 105: eq = global_phase_equivalent(U, V), atol at its default.
CallEq ==
    /\ pc = "eq"
    /\ LET r == GlobalPhaseEquivalent(U, V, atol)
       IN  /\ alpha' = r.alpha
           /\ phase' = r.phase
           /\ eq' = r.result
    /\ called' = {"UV"}
    /\ pc' = "print107"
    /\ UNCHANGED <<U, V, atol, eqSwapped, qc, circuitVars, tableVars, out,
                   ret, loopVars>>

\* Line 107
Print107 ==
    /\ pc = "print107"
    /\ out' = Append(out, Line(107, <<"=== Unitary Equivalence Check ===">>))
    /\ pc' = "print108"
    /\ UNCHANGED <<gpeVars, called, qc, circuitVars, tableVars, ret, loopVars>>

\* Line 108
Print108 ==
    /\ pc = "print108"
    /\ out' = Append(out, Line(108, <<"Equivalent to Toffoli up to global phase:", BoolStr(eq)>>))
    /\ pc' = "print111"
    /\ UNCHANGED <<gpeVars, called, qc, circuitVars, tableVars, ret, loopVars>>

\* Line 111
Print111 ==
    /\ pc = "print111"
    /\ out' = Append(out, Line(111, <<"", "=== Truth Table - Task1 Circuit ==">>))
    /\ pc' = "tt_task1"
    /\ UNCHANGED <<gpeVars, called, qc, circuitVars, tableVars, ret, loopVars>>

\* Line 115
Print115 ==
    /\ pc = "print115"
    /\ out' = Append(out, Line(115, <<"", "=== Truth Table - Reference CCX ===">>))
    /\ pc' = "tt_ref"
    /\ UNCHANGED <<gpeVars, called, qc, circuitVars, tableVars, ret, loopVars>>

\* Lines 112 and 116: truth_table(taskcircuit), truth_table(ref); line 30.
CallTruthTable ==
    /\ pc \in {"tt_task1", "tt_ref"}
    /\ ret' = pc
    /\ circ' = IF pc = "tt_task1" THEN taskcircuit ELSE ref
    /\ results' = <<>>
    /\ iter' = 0
    /\ pc' = "from_label"
    /\ UNCHANGED <<gpeVars, called, qc, circuitVars, tableVars, out, label,
                   psi_in, psi_out, max_idx>>

\* Lines 31-35: the next label of the nested loops, and its basis state.
TTFromLabel ==
    /\ pc = "from_label"
    /\ label' = LabelAt(iter)
    /\ psi_in' = FromLabel(LabelAt(iter))
    /\ pc' = "evolve"
    /\ UNCHANGED <<gpeVars, called, qc, circuitVars, tableVars, out, ret,
                   circ, results, iter, psi_out, max_idx>>

\* Line 36: psi_out = psi_in.evolve(circ)
TTEvolve ==
    /\ pc = "evolve"
    /\ psi_out' = Evolve(psi_in, circ)
    /\ pc' = "argmax"
    /\ UNCHANGED <<gpeVars, called, qc, circuitVars, tableVars, out, ret,
                   circ, results, iter, label, psi_in, max_idx>>

\* Lines 38-41: max_idx = int(np.argmax(np.abs(psi_out.data)**2))
TTArgMax ==
    /\ pc = "argmax"
    /\ max_idx' = ArgMax(Probs(psi_out))
    /\ pc' = "store"
    /\ UNCHANGED <<gpeVars, called, qc, circuitVars, tableVars, out, ret,
                   circ, results, iter, label, psi_in, psi_out>>

\* Lines 43-46: results[label] = format(max_idx, "03b")[::-1]
TTStore ==
    /\ pc = "store"
    /\ results' = (label :> OutputLabel(max_idx)) @@ results
    /\ iter' = iter + 1
    /\ pc' = IF iter + 1 = Cardinality(Labels) THEN "return results" ELSE "from_label"
    /\ UNCHANGED <<gpeVars, called, qc, circuitVars, tableVars, out, ret,
                   circ, label, psi_in, psi_out, max_idx>>

\* Line 47, and the assignment of line 112 or 116.
TTReturn ==
    /\ pc = "return results"
    /\ tt_task1' = IF ret = "tt_task1" THEN results ELSE tt_task1
    /\ tt_ref' = IF ret = "tt_ref" THEN results ELSE tt_ref
    /\ iter' = 0
    /\ pc' = "pretty_print"
    /\ UNCHANGED <<gpeVars, called, qc, circuitVars, tt_match, out, ret,
                   circ, results, label, psi_in, psi_out, max_idx>>

\* Line 51, called from line 113 or 117.
PrettyPrintHeader ==
    /\ pc = "pretty_print"
    /\ out' = Append(out, HeaderLine)
    /\ pc' = "pretty_print row"
    /\ UNCHANGED <<gpeVars, called, qc, circuitVars, tableVars, ret, loopVars>>

\* Lines 52-53: the row of the next key in sorted order.
PrettyPrintRow ==
    /\ pc = "pretty_print row"
    /\ LET tt == IF ret = "tt_task1" THEN tt_task1 ELSE tt_ref
           keys == Sorted(DOMAIN tt)
       IN  /\ out' = Append(out, RowLine(keys[iter + 1], tt[keys[iter + 1]]))
           /\ pc' = IF iter + 1 < Len(keys) THEN "pretty_print row"
                    ELSE IF ret = "tt_task1" THEN "print115" ELSE "tt_match"
    /\ iter' = iter + 1
    /\ UNCHANGED <<gpeVars, called, qc, circuitVars, tableVars, ret, circ,
                   results, label, psi_in, psi_out, max_idx>>

\* Line 120: tt_match = tt_task1 == tt_ref
CompareTables ==
    /\ pc = "tt_match"
    /\ tt_match' = (tt_task1 = tt_ref)
    /\ pc' = "print121"
    /\ UNCHANGED <<gpeVars, called, qc, circuitVars, tt_task1, tt_ref, out,
                   ret, loopVars>>

\* Line 121
Print121 ==
    /\ pc = "print121"
    /\ out' = Append(out, Line(121, <<"", "Truth tables identical:", BoolStr(tt_match)>>))
    /\ pc' = "print124"
    /\ UNCHANGED <<gpeVars, called, qc, circuitVars, tableVars, ret, loopVars>>

\* Line 124
Print124 ==
    /\ pc = "print124"
    /\ out' = Append(out, Line(124, <<"", "=== Summary ===">>))
    /\ pc' = "summary"
    /\ UNCHANGED <<gpeVars, called, qc, circuitVars, tableVars, ret, loopVars>>

\* Lines 125-128, after which main returns.
PrintSummary ==
    /\ pc = "summary"
    /\ out' = Append(out, SummaryLine(eq, tt_match))
    /\ pc' = "done"
    /\ UNCHANGED <<gpeVars, called, qc, circuitVars, tableVars, ret, loopVars>>

NextMain ==
    \/ NewTaskCircuit
    \/ AppendTaskGate
    \/ ReturnTaskCircuit
    \/ BuildReference
    \/ OperatorU
    \/ OperatorV
    \/ CallEq
    \/ Print107
    \/ Print108
    \/ Print111
    \/ CallTruthTable
    \/ TTFromLabel
    \/ TTEvolve
    \/ TTArgMax
    \/ TTStore
    \/ TTReturn
    \/ PrettyPrintHeader
    \/ PrettyPrintRow
    \/ Print115
    \/ CompareTables
    \/ Print121
    \/ Print124
    \/ PrintSummary

SpecMain == InitMain /\ [][NextMain]_vars

(***************************************************************************)
(* truth_table called on bounded inputs: two circuits, each with a global  *)
(* phase (QuantumCircuit.global_phase, in units of pi/4).                  *)
(***************************************************************************)
\* Global phases of the circuits compared: 0..MaxGlobalPhase.
MaxGlobalPhase == 4

GateLists ==
    { <<>>,
      << GateX(0) >>,
      << GateCX(0, 1) >>,
      << GateH(2) >>,
      << GateH(1), GateT(1), GateH(1) >>,
      << GateX(2), GateT(2), GateX(2), GateT(2) >>,
      RefGates,
      TaskGates }

CircuitInputs == {Circuit(g, j) : g \in GateLists, j \in 0..MaxGlobalPhase}

InitTT ==
    /\ U = <<>>
    /\ V = <<>>
    /\ atol = DefaultAtol
    /\ alpha = <<>>
    /\ phase = <<>>
    /\ eq = FALSE
    /\ eqSwapped = FALSE
    /\ called = {}
    /\ pc = "idle"
    /\ qc = NoCircuit
    /\ taskcircuit \in CircuitInputs
    /\ ref \in CircuitInputs
    /\ tt_task1 = <<>>
    /\ tt_ref = <<>>
    /\ tt_match = FALSE
    /\ out = <<>>
    /\ LoopIdle

\* tt_task1 = truth_table(taskcircuit)
TruthTableOfTask ==
    /\ "tt_task1" \notin called
    /\ tt_task1' = TruthTable(taskcircuit)
    /\ called' = called \cup {"tt_task1"}
    /\ UNCHANGED <<gpeVars, pc, qc, circuitVars, tt_ref, tt_match, out, ret,
                   loopVars>>

\* tt_ref = truth_table(ref)
TruthTableOfRef ==
    /\ "tt_ref" \notin called
    /\ tt_ref' = TruthTable(ref)
    /\ called' = called \cup {"tt_ref"}
    /\ UNCHANGED <<gpeVars, pc, qc, circuitVars, tt_task1, tt_match, out, ret,
                   loopVars>>

NextTT == TruthTableOfTask \/ TruthTableOfRef

SpecTT == InitTT /\ [][NextTT]_vars

(***************************************************************************)
(* Properties of truth_table and main.                                     *)
(***************************************************************************)
\* x * sqrt2^m
RECURSIVE QScale(_, _)
QScale(x, m) == IF m = 0 THEN x ELSE QScale(QTimesSqrt2(x), m - 1)

\* The unitary of a circuit, column by column, as exact amplitudes.
Columns(c) ==
    LET Col(j) == Evolve(BasisState(j), c)
    IN  Vec8(Col)

\* Columns A and B of two unitaries satisfy A = w^j * B exactly.
ColumnsRelatedBy(A, B, j) ==
    \A col \in 1..8 : \A i \in 0..7 :
        QScale(Amp(A[col], i), B[col].k)
            = QScale(QRot(Amp(B[col], i), j), A[col].k)

\* The unitaries of c1 and c2 satisfy U1 = w^j * U2 exactly for a j of js.
PhaseRelated(c1, c2, js) ==
    LET A == Columns(c1)
        B == Columns(c2)
    IN  \E j \in js : ColumnsRelatedBy(A, B, j)

IdentityTable == [lbl \in Labels |-> lbl]

Xor(a, b) == (a + b) % 2

\* a b c  |->  a b (c XOR (a AND b)): q0 and q1 control, q2 is the target.
ToffoliTable ==
    [lbl \in Labels |->
        <<lbl[1], lbl[2],
          Char(Xor(Digit(lbl[3]), Digit(lbl[1]) * Digit(lbl[2])))>>]

\* C4: for the identity operator on 3 qubits truth_table returns the
\* identity mapping: every input label maps to itself.
C4_IdentityTable ==
    ("tt_task1" \in called /\ taskcircuit = Circuit(<<>>, 0))
        => tt_task1 = IdentityTable

\* C5: the table main computes and prints for ccx(0, 1, 2) under the header
\* 'Input(q0q1q2) -> Output(q0q1q2)' is the Toffoli table with q0, q1 the
\* controls and q2 the target.
C5_ReferenceIsToffoliTable ==
    pc = "done" =>
        /\ tt_ref = ToffoliTable
        /\ \A i \in 1..8 :
              /\ out[14 + i] = RowLine(LabelAt(i - 1), ToffoliTable[LabelAt(i - 1)])
              /\ out[14] = HeaderLine

\* C6: for the circuits of build_circuit_with_u3 and build_reference_toffoli
\* the comparator returns true, the two truth tables are equal on all 8
\* inputs, and main prints the PASS line.
C6_EndToEndPass ==
    /\ "UV" \in called => eq = TRUE
    /\ pc \in {"print121", "print124", "summary", "done"} =>
          /\ DOMAIN tt_task1 = Labels
          /\ tt_task1 = tt_ref
          /\ tt_match = TRUE
    /\ pc = "done" => out[Len(out)] = PassLine

\* C6 witness: main has returned, with the comparison made on the 8x8
\* unitaries of the two circuits built.
C6_Witness ==
    /\ pc = "done"
    /\ taskcircuit = BuildCircuitWithU3
    /\ ref = BuildReferenceToffoli
    /\ Len(U) = 8
    /\ Len(V) = 8
    /\ phase = <<One>>
    /\ out[Len(out)] = PassLine

\* The source lines of the prints of a complete run, before the summary.
ReportOrder ==
    <<107, 108, 111, 51, 53, 53, 53, 53, 53, 53, 53, 53,
      115, 51, 53, 53, 53, 53, 53, 53, 53, 53, 121, 124>>

\* main is at a statement that can run: every action of NextMain is guarded
\* by its statement alone, and the appending one by the gates left.
CanStep ==
    /\ pc \in {"build_circuit_with_u3", "append", "return qc",
               "build_reference_toffoli", "U", "V", "eq", "print107",
               "print108", "print111", "tt_task1", "from_label", "evolve",
               "argmax", "store", "return results", "pretty_print",
               "pretty_print row", "print115", "tt_ref", "tt_match",
               "print121", "print124", "summary"}
    /\ pc = "append" => Len(qc.gates) < Len(TaskGates)
    /\ pc = "pretty_print row" => iter < Cardinality(Labels)

\* C7: every run of main ends normally, prints its sections once each in
\* the order unitary verdict, candidate table, reference table, match
\* verdict, summary, and prints exactly one summary line: PASS if and only
\* if eq and tt_match are both true, FAIL otherwise.
C7_ReportOrderAndSummary ==
    /\ pc = "done" \/ CanStep
    /\ Len(out) <= Len(ReportOrder) + 1
    /\ \A i \in 1..Len(out) :
          IF i <= Len(ReportOrder) THEN out[i].src = ReportOrder[i]
          ELSE out[i] \in {PassLine, FailLine}
    /\ pc = "done" =>
          /\ Len(out) = Len(ReportOrder) + 1
          /\ out[Len(out)] = PassLine <=> (eq /\ tt_match)
          /\ out[Len(out)] = FailLine <=> ~(eq /\ tt_match)
    /\ \A e \in BOOLEAN : \A m \in BOOLEAN :
          /\ SummaryLine(e, m) = PassLine <=> (e /\ m)
          /\ SummaryLine(e, m) = FailLine <=> ~(e /\ m)

\* C7 witness: main has returned after printing all of its lines.
C7_Witness ==
    /\ pc = "done"
    /\ Len(out) = Len(ReportOrder) + 1
    /\ out[Len(out)].src \in {126, 128}

====
